---- MODULE Spec2Model ----
(***************************************************************************)
(* The evaluation harness of evaluation/evaluator.py: the Evaluator base   *)
(* class (constructor, population pass, metric queries) and its two        *)
(* prediction normalisers, YoloEvaluator and RCNNEvaluator.                *)
(*                                                                         *)
(* Python lists are objects: self.preds and self.gt are REFERENCES to list *)
(* objects, and the metrics engine keeps the references it was given. The  *)
(* model keeps a heap of list objects so that rebinding self.preds (line   *)
(* 57) and appending to the list it names (line 67) stay different things. *)
(*                                                                         *)
(* Numbers: scores and label coordinates are integers in percent; boxes    *)
(* are integer pixel coordinates. Tensor dtype promotion in torch.cat      *)
(* keeps every value modelled here, so rows are tuples of integers.        *)
(***************************************************************************)
EXTENDS Integers, Sequences, FiniteSets, TLC

\* ---------------------------------------------------------------- bounds
MaxImgs == 3
MaxDets == 3
MaxLines == 2
NumClasses == 2
MaxPasses == 2

\* ------------------------------------------------------ program constants
Background == 0
YoloConf == 0

VARIABLES
    variant,      \* "yolo" | "rcnn": the concrete Evaluator subclass
    test_imgs,    \* the files of the image directory
    test_labels,  \* the label directory: base name -> lines of <name>.txt
    model,        \* the injected detector: image name -> candidate labels
    heap,         \* list objects: heap[r] is the list with reference r
    preds,        \* self.preds (a reference)
    gt,           \* self.gt (a reference)
    metrics,      \* self.metrics: the references the engine was built with
    img_paths,    \* local of the population pass
    i,            \* loop index of the population pass (0-based)
    pc,           \* "ctor" | "loop" | "ready" | "failed"
    passes,       \* population passes started on this instance
    builds,       \* ObjectDetectionMetrics objects constructed
    modelCalls,   \* every invocation of the model, in order
    ret           \* outcome of the last call made on the harness

vars == <<variant, test_imgs, test_labels, model, heap, preds, gt, metrics,
          img_paths, i, pc, passes, builds, modelCalls, ret>>

\* ------------------------------------------------------------- utilities
RECURSIVE SeqsUpTo(_, _)
SeqsUpTo(S, n) ==
    IF n = 0 THEN {<<>>}
    ELSE LET shorter == SeqsUpTo(S, n - 1)
         IN  shorter \cup {Append(s, x) : s \in {t \in shorter : Len(t) = n - 1}, x \in S}

Min(S) == CHOOSE x \in S : \A y \in S : x <= y

RECURSIVE SortedSeq(_)
SortedSeq(S) == IF S = {} THEN <<>> ELSE <<Min(S)>> \o SortedSeq(S \ {Min(S)})

\* ------------------------------------------------- external collaborators
\* data_utils.list_files_of_a_type: the files of the directory with the
\* extension, in a fixed (name) order.
list_files_of_a_type(dir, ext) ==
    LET names == {f.name : f \in {g \in dir : g.ext = ext}}
        order == SortedSeq(names)
    IN  [k \in 1..Len(order) |-> [name |-> order[k], ext |-> ext]]

\* data_utils.get_filename: the base name of a path, without extension.
get_filename(img_path) == img_path.name

\* image_labelling.bboxes_from_yolo_labels(normalised=False): one absolute
\* (x1, y1, x2, y2) box and one class id per label line "c x y w h".
\* Images are 200 pixels square and coordinates are in percent.
bboxes_from_yolo_labels(lines) ==
    [bboxes |-> [k \in 1..Len(lines) |->
                    <<2 * lines[k].x - lines[k].w, 2 * lines[k].y - lines[k].h,
                      2 * lines[k].x + lines[k].w, 2 * lines[k].y + lines[k].h>>],
     labels |-> [k \in 1..Len(lines) |-> lines[k].class_id]]

\* The geometry of candidate detection k of image p, and its score: both
\* detector families return candidates by descending confidence.
DetBox(p, k) == <<10 * p + k, 10 * p, 10 * p + k + 5, 10 * p + 5>>
DetScore(k) == 90 \div (k * k)

\* The single-stage model called as model(path, conf=c): a list with one
\* result whose boxes.data holds the (x1, y1, x2, y2, score, class) rows of
\* the candidates scoring above the confidence threshold.
YoloModel(img_path, conf) ==
    LET cand == model[img_path.name]
        rows == [k \in 1..Len(cand) |-> DetBox(img_path.name, k) \o <<DetScore(k), cand[k]>>]
    IN  << [boxes |-> SelectSeq(rows, LAMBDA r : r[5] > conf)] >>

\* The two-stage model called on a batch of one image: a list with one dict
\* of parallel labels, boxes and scores; label 0 is the background class.
RCNNModel(img_path) ==
    LET cand == model[img_path.name]
    IN  << [labels |-> cand,
            boxes  |-> [k \in 1..Len(cand) |-> DetBox(img_path.name, k)],
            scores |-> [k \in 1..Len(cand) |-> DetScore(k)]] >>

\* --------------------------------------------------------------- Evaluator
\* Mutant: the columns joined the other way round, class first.
LabelRows_ClassFirst(parsed) ==
    [k \in 1..Len(parsed.labels) |-> <<parsed.labels[k]>> \o parsed.bboxes[k]]

\* cat((bboxes, labels.unsqueeze(1)), dim=1): row k is box k then class k.
LabelRows(parsed) ==
    [k \in 1..Len(parsed.labels) |-> parsed.bboxes[k] \o <<parsed.labels[k]>>]

\* Mutant: a missing label file read as an image without objects.
get_labels_for_image_Lenient(img_path) ==
    LET filename == get_filename(img_path)
    IN  [raised |-> FALSE,
         rows |-> IF filename \notin DOMAIN test_labels THEN <<>>
                  ELSE LabelRows(bboxes_from_yolo_labels(test_labels[filename]))]

\* Evaluator.get_labels_for_image
get_labels_for_image(img_path) ==
    LET filename == get_filename(img_path)
    IN  IF filename \notin DOMAIN test_labels
        THEN [raised |-> TRUE, rows |-> <<>>]
        ELSE [raised |-> FALSE,
              rows |-> LabelRows(bboxes_from_yolo_labels(test_labels[filename]))]

\* Mutant: the model called with the default threshold of the queries.
YoloInfer_DefaultConf(img_path) ==
    LET ground_truths == get_labels_for_image(img_path)
    IN  IF ground_truths.raised
        THEN [raised |-> TRUE, ground_truths |-> <<>>, predictions |-> <<>>,
              calls |-> <<>>]
        ELSE [raised |-> FALSE,
              ground_truths |-> ground_truths.rows,
              predictions |-> YoloModel(img_path, 25)[1].boxes,
              calls |-> << [img |-> img_path.name, conf |-> 25] >>]

\* Mutant: the model called before the labels are looked up.
YoloInfer_ModelFirst(img_path) ==
    LET predictions == YoloModel(img_path, YoloConf)[1].boxes
        calls == << [img |-> img_path.name, conf |-> YoloConf] >>
        ground_truths == get_labels_for_image(img_path)
    IN  IF ground_truths.raised
        THEN [raised |-> TRUE, ground_truths |-> <<>>, predictions |-> <<>>,
              calls |-> calls]
        ELSE [raised |-> FALSE,
              ground_truths |-> ground_truths.rows,
              predictions |-> predictions,
              calls |-> calls]

\* YoloEvaluator.infer_for_one_img: labels first, then the model.
YoloInfer(img_path) ==
    LET ground_truths == get_labels_for_image(img_path)
    IN  IF ground_truths.raised
        THEN [raised |-> TRUE, ground_truths |-> <<>>, predictions |-> <<>>,
              calls |-> <<>>]
        ELSE [raised |-> FALSE,
              ground_truths |-> ground_truths.rows,
              predictions |-> YoloModel(img_path, YoloConf)[1].boxes,
              calls |-> << [img |-> img_path.name, conf |-> YoloConf] >>]

\* Mutant: the labels shifted but the background detections not masked out.
RCNNNormalise_NoMask(pred) ==
    [k \in 1..Len(pred.labels) |->
        pred.boxes[k] \o <<pred.scores[k], pred.labels[k] - 1>>]

\* RCNNEvaluator.infer_for_one_img, lines 127-135: mask out the background
\* detections, shift the labels down by one, join the columns.
RCNNNormalise(pred) ==
    LET keep == SelectSeq([k \in 1..Len(pred.labels) |-> k],
                          LAMBDA k : pred.labels[k] # Background)
    IN  [n \in 1..Len(keep) |->
            pred.boxes[keep[n]] \o <<pred.scores[keep[n]], pred.labels[keep[n]] - 1>>]

\* RCNNEvaluator.infer_for_one_img: the model first, then the labels.
RCNNInfer(img_path) ==
    LET pred == RCNNModel(img_path)[1]
        predictions == RCNNNormalise(pred)
        ground_truths == get_labels_for_image(img_path)
        calls == << [img |-> img_path.name, conf |-> -1] >>
    IN  IF ground_truths.raised
        THEN [raised |-> TRUE, ground_truths |-> <<>>, predictions |-> <<>>,
              calls |-> calls]
        ELSE [raised |-> FALSE,
              ground_truths |-> ground_truths.rows,
              predictions |-> predictions,
              calls |-> calls]

\* The abstract method, dispatched on the subclass.
infer_for_one_img(img_path) ==
    IF variant = "yolo" THEN YoloInfer(img_path) ELSE RCNNInfer(img_path)

\* ------------------------------------------------------------------ inputs
PngFiles(n) == {[name |-> p, ext |-> ".png"] : p \in 1..n}
StrayFile == [name |-> 0, ext |-> ".jpg"]

LabelLine(p, k, c) == [class_id |-> c, x |-> 20 * k, y |-> 10 * p, w |-> 10, h |-> 20]

LabelFiles ==
    {[k \in 1..Len(cs) |-> LabelLine(1, k, cs[k])] : cs \in SeqsUpTo(0..(NumClasses - 1), MaxLines)}

Candidates(v) ==
    SeqsUpTo(IF v = "yolo" THEN 0..(NumClasses - 1) ELSE 0..NumClasses, MaxDets)

\* A test set of up to MaxImgs images with fixed, pairwise different
\* contents, any of whose label files may be missing.
FixtureLabels(p) == [k \in 1..p |-> LabelLine(p, k, (p + k) % NumClasses)]
FixtureCandidates(p) == [k \in 1..(p + 1) |-> (p + k) % NumClasses]

InitTestSet ==
    \E n \in 0..MaxImgs : \E labelled \in SUBSET (1..n) :
        /\ test_imgs = PngFiles(n) \cup {StrayFile}
        /\ test_labels = [p \in labelled |-> FixtureLabels(p)]
        /\ model = [p \in 1..n |-> FixtureCandidates(p)]

\* A test set of one image with any label file (or none) and any model
\* output within the bounds.
InitOneImage ==
    /\ test_imgs = PngFiles(1) \cup {StrayFile}
    /\ test_labels \in {[p \in {} |-> <<>>]} \cup {[p \in {1} |-> f] : f \in LabelFiles}
    /\ model \in {[p \in {1} |-> c] : c \in Candidates(variant)}

\* -------------------------------------------------------------- behaviour
NoMetrics == [detections |-> 0, ground_truths |-> 0]

\* Evaluator.__init__, lines 12-21: the fields are set, two empty lists made.
Init ==
    /\ variant \in {"yolo", "rcnn"}
    /\ (InitTestSet \/ InitOneImage)
    /\ heap = << <<>>, <<>> >>
    /\ preds = 1
    /\ gt = 2
    /\ metrics = NoMetrics
    /\ img_paths = <<>>
    /\ i = 0
    /\ pc = "ctor"
    /\ passes = 0
    /\ builds = 0
    /\ modelCalls = <<>>
    /\ ret = [op |-> "none", out |-> "none"]

\* Mutant: the pass without lines 57-58, appending to the lists it finds.
BeginPass_NoClear ==
    /\ img_paths' = list_files_of_a_type(test_imgs, ".png")
    /\ i' = 0
    /\ pc' = "loop"
    /\ passes' = passes + 1
    /\ UNCHANGED <<heap, preds, gt>>

\* __get_preds_and_labels, lines 57-60: two NEW empty lists, then the listing.
BeginPass ==
    /\ heap' = heap \o << <<>>, <<>> >>
    /\ preds' = Len(heap) + 1
    /\ gt' = Len(heap) + 2
    /\ img_paths' = list_files_of_a_type(test_imgs, ".png")
    /\ i' = 0
    /\ pc' = "loop"
    /\ passes' = passes + 1

\* __init__, line 23: the constructor calls the population pass.
CtorPopulate ==
    /\ pc = "ctor"
    /\ BeginPass
    /\ UNCHANGED <<variant, test_imgs, test_labels, model, metrics, builds,
                   modelCalls, ret>>

\* Mutant: the ground truth inserted at the front of its list.
StoreEntries_GtFront(h, r) ==
    [h EXCEPT ![preds] = Append(@, r.predictions),
              ![gt] = <<r.ground_truths>> \o @]

\* Lines 67-68: both results are appended to the lists self.preds and
\* self.gt name.
StoreEntries(h, r) ==
    [h EXCEPT ![preds] = Append(@, r.predictions),
              ![gt] = Append(@, r.ground_truths)]

\* One iteration of the loop, lines 63-68; an exception of
\* infer_for_one_img leaves the loop, the pass and its caller.
LoopIteration ==
    /\ pc = "loop"
    /\ i < Len(img_paths)
    /\ LET r == infer_for_one_img(img_paths[i + 1])
       IN  /\ modelCalls' = modelCalls \o r.calls
           /\ IF r.raised
              THEN /\ pc' = "failed"
                   /\ ret' = [op |-> (IF metrics = NoMetrics THEN "__init__"
                                      ELSE "__get_preds_and_labels"),
                              out |-> "LabelFileNotFound"]
                   /\ UNCHANGED <<heap, i>>
              ELSE /\ heap' = StoreEntries(heap, r)
                   /\ i' = i + 1
                   /\ UNCHANGED <<pc, ret>>
    /\ UNCHANGED <<variant, test_imgs, test_labels, model, preds, gt, metrics,
                   img_paths, passes, builds>>

\* Mutant: the engine built over copies of the two lists.
CtorMetrics_Copies ==
    /\ pc = "loop"
    /\ i = Len(img_paths)
    /\ metrics = NoMetrics
    /\ heap' = heap \o <<heap[preds], heap[gt]>>
    /\ metrics' = [detections |-> Len(heap) + 1, ground_truths |-> Len(heap) + 2]
    /\ builds' = builds + 1
    /\ pc' = "ready"
    /\ ret' = [op |-> "__init__", out |-> "ok"]
    /\ UNCHANGED <<variant, test_imgs, test_labels, model, preds, gt,
                   img_paths, i, passes, modelCalls>>

\* __init__, lines 25-29: the pass returned, the engine is built over the
\* lists self.preds and self.gt name now.
CtorMetrics ==
    /\ pc = "loop"
    /\ i = Len(img_paths)
    /\ metrics = NoMetrics
    /\ metrics' = [detections |-> preds, ground_truths |-> gt]
    /\ builds' = builds + 1
    /\ pc' = "ready"
    /\ ret' = [op |-> "__init__", out |-> "ok"]
    /\ UNCHANGED <<variant, test_imgs, test_labels, model, heap, preds, gt,
                   img_paths, i, passes, modelCalls>>

\* The pass called again on a constructed harness (it is reachable under
\* its mangled name) ...
Repopulate ==
    /\ pc = "ready"
    /\ passes < MaxPasses
    /\ BeginPass
    /\ ret' = [op |-> "__get_preds_and_labels", out |-> "running"]
    /\ UNCHANGED <<variant, test_imgs, test_labels, model, metrics, builds,
                   modelCalls>>

\* ... and its return to that caller.
PassReturn ==
    /\ pc = "loop"
    /\ i = Len(img_paths)
    /\ metrics # NoMetrics
    /\ pc' = "ready"
    /\ ret' = [op |-> "__get_preds_and_labels", out |-> "ok"]
    /\ UNCHANGED <<variant, test_imgs, test_labels, model, heap, preds, gt,
                   metrics, img_paths, i, passes, builds, modelCalls>>

\* The guard of lines 71 and 80.
NoData == heap[preds] = <<>> /\ heap[gt] = <<>>

\* Mutant: a query that empties preds once it has been answered.
QueryFrame_Clears ==
    /\ heap' = [heap EXCEPT ![preds] = <<>>]
    /\ UNCHANGED <<variant, test_imgs, test_labels, model, preds, gt,
                   metrics, img_paths, i, pc, passes, builds, modelCalls>>

\* The queries assign no attribute of the harness.
QueryFrame ==
    UNCHANGED <<variant, test_imgs, test_labels, model, heap, preds, gt,
                metrics, img_paths, i, pc, passes, builds, modelCalls>>

\* Lines 70-74.
confusion_matrix ==
    /\ pc = "ready"
    /\ ret' = [op |-> "confusion_matrix",
               out |-> IF NoData THEN "NoData" ELSE "metrics"]
    /\ QueryFrame

\* Lines 76-84.
ap_per_class ==
    /\ pc = "ready"
    /\ ret' = [op |-> "ap_per_class",
               out |-> IF NoData THEN "NoData" ELSE "metrics"]
    /\ QueryFrame

\* Lines 86-87: no guard, the engine is asked at once.
map50 ==
    /\ pc = "ready"
    /\ ret' = [op |-> "map50", out |-> "metrics"]
    /\ QueryFrame

\* Lines 89-90: no guard either.
map50_95 ==
    /\ pc = "ready"
    /\ ret' = [op |-> "map50_95", out |-> "metrics"]
    /\ QueryFrame

Query == confusion_matrix \/ ap_per_class \/ map50 \/ map50_95

Next ==
    \/ CtorPopulate
    \/ LoopIteration
    \/ CtorMetrics
    \/ Repopulate
    \/ PassReturn
    \/ confusion_matrix
    \/ ap_per_class
    \/ map50
    \/ map50_95

Spec == Init /\ [][Next]_vars

\* ================================================================== claims
Preds == heap[preds]
Gt == heap[gt]

\* The test set as the directory holds it, not as the pass saw it.
PngNames == {f.name : f \in {g \in test_imgs : g.ext = ".png"}}
Unlabelled == {p \in PngNames : p \notin DOMAIN test_labels}
\* 0-based position of name p in the enumeration.
PositionOf(p) == Cardinality({q \in PngNames : q < p})
QueryOps == {"confusion_matrix", "ap_per_class", "map50", "map50_95"}

\* C1: every one of the four metric queries answers a harness whose preds
\* and gt are both empty with the no-data error, never with a result of the
\* metrics engine.
C1_AllQueriesGuarded ==
    (ret.op \in QueryOps /\ Preds = <<>> /\ Gt = <<>>) => ret.out = "NoData"

\* C2: alignment. At every point of a population pass and after it, preds
\* and gt have the same length, the number of images handled so far, and
\* entry k of each was produced from the k-th enumerated image path.
C2_Alignment ==
    pc \in {"loop", "ready", "failed"} =>
        /\ Len(Preds) = Len(Gt)
        /\ Len(Preds) = i
        /\ i <= Len(img_paths)
        /\ \A k \in 1..Len(Preds) :
              /\ img_paths[k].name = Min({q \in PngNames : PositionOf(q) = k - 1})
              /\ LET r == infer_for_one_img(img_paths[k])
                 IN  Preds[k] = r.predictions /\ Gt[k] = r.ground_truths
              /\ \A row \in {Preds[k][n] : n \in 1..Len(Preds[k])} :
                    row[2] = 10 * img_paths[k].name
              /\ \A row \in {Gt[k][n] : n \in 1..Len(Gt[k])} :
                    row[2] + row[4] = 40 * img_paths[k].name
        /\ (pc = "ready" => Len(Preds) = Cardinality(PngNames))

C2_Witness ==
    /\ pc = "ready"
    /\ Len(Preds) = 3
    /\ \A k \in 1..3 : Preds[k] # <<>> /\ Gt[k] # <<>>

\* C3: a missing label file is fatal. With an enumerated image unlabelled
\* the constructor never completes: the pass stops at the first such image
\* with the error, the model is never run on a later image, no engine is
\* ever built and no query is ever answered.
C3_MissingLabelIsFatal ==
    Unlabelled # {} =>
        /\ pc # "ready"
        /\ metrics = NoMetrics
        /\ builds = 0
        /\ ret.op \notin QueryOps
        /\ ret.out # "ok"
        /\ i <= PositionOf(Min(Unlabelled))
        /\ \A c \in 1..Len(modelCalls) : modelCalls[c].img <= Min(Unlabelled)
        /\ (pc = "failed" =>
              /\ i = PositionOf(Min(Unlabelled))
              /\ ret = [op |-> "__init__", out |-> "LabelFileNotFound"])
        /\ (pc = "loop" /\ i = PositionOf(Min(Unlabelled)) =>
              ~ ENABLED CtorMetrics)

C3_Witness ==
    /\ pc = "failed"
    /\ i = 1
    /\ Len(img_paths) = 3
    /\ 3 \in DOMAIN test_labels

\* The detections that are not background, and the place of one among them.
Survivors(pred) == {k \in 1..Len(pred.labels) : pred.labels[k] # 0}
Rank(pred, k) == Cardinality({m \in Survivors(pred) : m <= k})

\* C4: the two-stage normaliser keeps exactly the detections whose label is
\* not the background, in the model's order, as box, score, label - 1.
C4_BackgroundFiltered ==
    (variant = "rcnn" /\ pc \in {"loop", "ready", "failed"}) =>
        \A n \in 1..Len(Preds) :
            LET pred == RCNNModel(img_paths[n])[1]
            IN  /\ Len(Preds[n]) = Cardinality(Survivors(pred))
                /\ \A k \in Survivors(pred) :
                      Preds[n][Rank(pred, k)] =
                          pred.boxes[k] \o <<pred.scores[k], pred.labels[k] - 1>>
                /\ \A r \in 1..Len(Preds[n]) :
                      Len(Preds[n][r]) = 6 /\ Preds[n][r][6] >= 0

C4_Witness ==
    /\ variant = "rcnn"
    /\ pc = "ready"
    /\ Len(Preds) = 1
    /\ RCNNModel(img_paths[1])[1].labels = <<2, 0, 1>>
    /\ Len(Preds[1]) = 2

\* C5: a metric query changes neither preds nor gt nor any list: the
\* accumulated state is the same before and after every query.
C5_QueriesReadOnly ==
    [][Query =>
          /\ heap' = heap
          /\ preds' = preds
          /\ gt' = gt
          /\ metrics' = metrics]_vars

C5_Witness ==
    /\ ret.op = "ap_per_class"
    /\ ret.out = "metrics"
    /\ Len(Preds) = 2

\* C6: the ground truth stored for an image has one row per line of its
\* label file, in the file's order: the four box columns, then the class id
\* of that line.
C6_GroundTruthRows ==
    pc \in {"loop", "ready", "failed"} =>
        \A n \in 1..Len(Gt) :
            LET lines == test_labels[img_paths[n].name]
            IN  /\ Len(Gt[n]) = Len(lines)
                /\ \A k \in 1..Len(lines) :
                      /\ Len(Gt[n][k]) = 5
                      /\ Gt[n][k][5] = lines[k].class_id
                      /\ SubSeq(Gt[n][k], 1, 4) = bboxes_from_yolo_labels(lines).bboxes[k]

C6_Witness ==
    /\ pc = "ready"
    /\ Len(Gt) = 1
    /\ Len(Gt[1]) = 2
    /\ Gt[1][1][5] = 1
    /\ Gt[1][2][5] = 0

\* C7: the single-stage normaliser stores what the model returns at
\* confidence threshold 0, every candidate row, unchanged and in order, and
\* never calls the model with another threshold.
C7_YoloPassThrough ==
    (variant = "yolo" /\ pc \in {"loop", "ready", "failed"}) =>
        /\ \A c \in 1..Len(modelCalls) : modelCalls[c].conf = 0
        /\ \A n \in 1..Len(Preds) :
              LET p == img_paths[n].name
              IN  /\ Preds[n] = YoloModel(img_paths[n], 0)[1].boxes
                  /\ Len(Preds[n]) = Len(model[p])
                  /\ \A k \in 1..Len(model[p]) :
                        Preds[n][k] = DetBox(p, k) \o <<DetScore(k), model[p][k]>>

C7_Witness ==
    /\ variant = "yolo"
    /\ pc = "ready"
    /\ Len(Preds) = 1
    /\ Len(Preds[1]) = 3
    /\ Preds[1][3][5] < 25

\* C8 as stated: after a second population pass on the same harness, preds
\* and gt hold two entries per enumerated image.
C8_SecondPassDuplicates ==
    (pc = "ready" /\ passes = 2) =>
        /\ Len(Preds) = 2 * Cardinality(PngNames)
        /\ Len(Gt) = 2 * Cardinality(PngNames)

\* C8 amended: a second pass starts from two new empty lists, so after it
\* preds and gt hold one entry per enumerated image again, in enumeration
\* order; the engine keeps the lists of the first pass.
C8_SecondPassRebuilds ==
    (pc = "ready" /\ passes >= 2) =>
        /\ Len(Preds) = Cardinality(PngNames)
        /\ Len(Gt) = Cardinality(PngNames)
        /\ \A k \in 1..Len(Preds) :
              LET r == infer_for_one_img(img_paths[k])
              IN  Preds[k] = r.predictions /\ Gt[k] = r.ground_truths
        /\ preds # metrics.detections
        /\ gt # metrics.ground_truths

C8_Witness ==
    /\ pc = "ready"
    /\ passes = 2
    /\ Len(Preds) = 2
    /\ preds # metrics.detections

\* C9: construction runs one pass and then builds one engine, over the very
\* lists the pass filled, once every enumerated image has its entry; no
\* query is answered by a harness without an engine.
C9_EngineAfterFullPass ==
    /\ builds <= 1
    /\ (metrics = NoMetrics <=> builds = 0)
    /\ (metrics # NoMetrics =>
          /\ passes >= 1
          /\ Len(heap[metrics.detections]) = Cardinality(PngNames)
          /\ Len(heap[metrics.ground_truths]) = Cardinality(PngNames))
    /\ (ret = [op |-> "__init__", out |-> "ok"] =>
          /\ passes = 1
          /\ builds = 1
          /\ metrics.detections = preds
          /\ metrics.ground_truths = gt
          /\ i = Len(img_paths))
    /\ (ret.op \in QueryOps => metrics # NoMetrics)
    /\ (pc \in {"ctor", "failed"} \/ passes = 0 => ~ ENABLED map50)

C9_Witness ==
    /\ ret = [op |-> "__init__", out |-> "ok"]
    /\ Len(Preds) = 3
    /\ metrics.detections = preds

\* C10: when the pass aborts on the image at 0-based position k, preds and
\* gt each hold k entries, those of the first k images; the single-stage
\* variant has then run the model k times, the two-stage one k + 1 times.
C10_AbortLeavesPrefix ==
    pc = "failed" =>
        LET k == PositionOf(Min(Unlabelled))
        IN  /\ Len(Preds) = k
            /\ Len(Gt) = k
            /\ \A n \in 1..k :
                  /\ img_paths[n].name < Min(Unlabelled)
                  /\ LET r == infer_for_one_img(img_paths[n])
                     IN  Preds[n] = r.predictions /\ Gt[n] = r.ground_truths
            /\ (variant = "yolo" => Len(modelCalls) = k)
            /\ (variant = "rcnn" =>
                  /\ Len(modelCalls) = k + 1
                  /\ modelCalls[k + 1].img = Min(Unlabelled))

C10_Witness ==
    /\ pc = "failed"
    /\ variant = "rcnn"
    /\ Len(Preds) = 2
    /\ Len(modelCalls) = 3
====
